---- MODULE Spec2Model ----
(***************************************************************************)
(* Model of experiments/opencog/pattern_matcher_vqa/pattern_matcher_vqa.py *)
(* the per-question pipeline (PatternMatcherVqaPipeline), the scoped       *)
(* atomspace it pushes and pops, the scorer callback runNeuralNetwork, the *)
(* ranking of OtherDetSubjObjResult and StatisticsAnswerHandler.           *)
(*                                                                         *)
(* Probabilities and truth values are fixed-point numbers in units of      *)
(* 1e-6: 0.5 is 500000, 0.000001 is 1.                                     *)
(***************************************************************************)
EXTENDS Integers, Sequences, FiniteSets, TLC

VARIABLES
    pc,                 \* position of the main script / answerQuestion
    lineNo,             \* lines of the questions file consumed so far
    record,             \* the Record being answered
    frames,             \* the atomspace stack: frames[1] is the root
    processedQuestions, \* StatisticsAnswerHandler.processedQuestions
    questionsAnswered,  \* StatisticsAnswerHandler.questionsAnswered
    correctAnswers,     \* StatisticsAnswerHandler.correctAnswers
    printedLines,       \* result lines printed to standard output
    queryInScheme,      \* the translator's result for the question
    engineCalls,        \* query engine invocations for this question
    callbacks,          \* runNeuralNetwork callbacks in this evaluation
    resultsData,        \* what cog-execute! returned (open question)
    results,            \* the sorted OtherDetSubjObjResult list
    truthValue,         \* what cog-evaluate! returned (yes/no question)
    answer,             \* the answer of the current question
    logged,             \* the error logged for the current line
    featureFile,        \* the lines of the feature file being loaded
    featuresByBoundingBoxIndex, \* what the feature loader returned
    called,             \* the last runNeuralNetwork call and its return
    entry               \* the state when the current line was read

vars == <<pc, lineNo, record, frames, processedQuestions, questionsAnswered,
          correctAnswers, printedLines, queryInScheme, engineCalls, callbacks,
          resultsData, results, truthValue, answer, logged, featureFile,
          featuresByBoundingBoxIndex, called, entry>>

None == "None"

\* ---------------------------------------------------------------- bounds

MaxLines == 2
MaxCallbacks == 2
MaxResults == 2
MaxCandidates == 3
MaxFileLines == 4

\* ------------------------------------------------------------- constants

\* 0.000001 in __lt__
Epsilon == 1
\* 0.5 in answerYesNoQuestion
YesThreshold == 500000
\* features[10:]
HeaderFields == 10

\* ----------------------------------------------------------------- atoms

ConceptNode(name) == <<"ConceptNode", name>>
PredicateNode(name) == <<"PredicateNode", name>>
InheritanceLink(a, b) == <<"InheritanceLink", a[2], b[2]>>

BoundingBoxName(n) == <<"BoundingBox-0", "BoundingBox-1", "BoundingBox-2">>[n + 1]

\* the words a question's query can name
Words == {"red", "ball"}

EmptyValues == [p \in {} |-> 0]
EmptyFrame == [atoms |-> {}, values |-> EmptyValues]

\* ------------------------------------------------------------- atomspace

\* every atom the active atomspace can see: its own and its ancestors'
Visible(fs) == UNION {fs[i].atoms : i \in 1..Len(fs)}

\* an atom is held by the frame it was first added to
HomeFrame(fs, atom) == CHOOSE i \in 1..Len(fs) : atom \in fs[i].atoms

\* ConceptNode(...), InheritanceLink(...): the type constructor returns the
\* atom an ancestor already holds, else adds it to the active atomspace
AddAtom(fs, atom) ==
    IF atom \in Visible(fs) THEN fs
    ELSE [fs EXCEPT ![Len(fs)].atoms = @ \cup {atom}]

\* atom.set_value(key, value): the value is stored on the atom, so in the
\* frame that holds the atom, which is an ancestor's when the atom was
\* found there
SetValue(fs, atom, key, value) ==
    LET i == HomeFrame(fs, atom)
    IN  [fs EXCEPT ![i].values = (<<atom, key>> :> value) @@ @]

\* atom.get_value(key) is not None
HasValue(fs, atom, key) ==
    /\ atom \in Visible(fs)
    /\ <<atom, key>> \in DOMAIN fs[HomeFrame(fs, atom)].values

\* atom.get_value(key), where there is one
GetValue(fs, atom, key) == fs[HomeFrame(fs, atom)].values[<<atom, key>>]

pushAtomspace(fs) == Append(fs, EmptyFrame)

popAtomspace(fs) == SubSeq(fs, 1, Len(fs) - 1)

Depth == Len(frames) - 1

\* ------------------------------------------------------- feature loading

\* float(number) for the fields a feature file holds; any other field
\* raises ValueError
FloatTable ==
    [t \in {"0", "0.1", "0.2", "0.3", "0.4", "0.5", "0.6"} |->
        CASE t = "0"   -> 0
          [] t = "0.1" -> 100000
          [] t = "0.2" -> 200000
          [] t = "0.3" -> 300000
          [] t = "0.4" -> 400000
          [] t = "0.5" -> 500000
          [] t = "0.6" -> 600000]

IsFloat(t) == t \in DOMAIN FloatTable

Geometry == [i \in 1..HeaderFields |-> "0"]

HeaderLine == <<"x", "y", "w", "h">>

\* the feature files of the images the questions name; image 3 has none
FeaturesFiles ==
    [imageId \in {1, 2, 4} |->
        CASE imageId = 1 -> <<HeaderLine, Geometry \o <<"0.1", "0.2">> >>
          [] imageId = 2 -> <<HeaderLine, Geometry \o <<"0.1", "0.2">>,
                              Geometry \o <<"0.3", "0.4">> >>
          [] imageId = 4 -> <<HeaderLine, Geometry \o <<"0.1", "n/a">> >>]

ImageIds == 1..4

\* features[10:]
DropHeader(features) ==
    IF Len(features) <= HeaderFields THEN <<>>
    ELSE SubSeq(features, HeaderFields + 1, Len(features))

\* loadFeaturesUsingFileHandle without next(fileHandle): the first line is
\* read as a row
loadFeaturesWithoutSkip(fileHandle) ==
    IF \E l \in 1..Len(fileHandle) :
          \E f \in 1..Len(fileHandle[l]) : ~IsFloat(fileHandle[l][f])
    THEN [exc |-> "ValueError", value |-> <<>>]
    ELSE [exc |-> None,
          value |-> [l \in 1..Len(fileHandle) |->
                        DropHeader([f \in 1..Len(fileHandle[l]) |->
                                      FloatTable[fileHandle[l][f]]])]]

\* TsvFileFeatureLoader.loadFeaturesUsingFileHandle: next(fileHandle) skips
\* the first line, every other line gives one vector
loadFeaturesUsingFileHandle(fileHandle) ==
    IF Len(fileHandle) = 0 THEN [exc |-> "StopIteration", value |-> <<>>]
    ELSE IF \E l \in 2..Len(fileHandle) :
              \E f \in 1..Len(fileHandle[l]) : ~IsFloat(fileHandle[l][f])
    THEN [exc |-> "ValueError", value |-> <<>>]
    ELSE [exc |-> None,
          value |-> [l \in 1..(Len(fileHandle) - 1) |->
                        DropHeader([f \in 1..Len(fileHandle[l + 1]) |->
                                      FloatTable[fileHandle[l + 1][f]]])]]

\* TsvFileFeatureLoader.loadFeaturesByImageId
loadFeaturesByImageId(imageId) ==
    IF imageId \notin DOMAIN FeaturesFiles
    THEN [exc |-> "KeyError", value |-> <<>>]
    ELSE loadFeaturesUsingFileHandle(FeaturesFiles[imageId])

\* ------------------------------------------------------------ statistics

Stats == [processedQuestions |-> processedQuestions,
          questionsAnswered |-> questionsAnswered,
          correctAnswers |-> correctAnswers]

\* StatisticsAnswerHandler.onNewQuestion
onNewQuestion(st) ==
    [st EXCEPT !.processedQuestions = @ + 1]

\* StatisticsAnswerHandler.correctAnswerPercent, in units of 1e-6 percent
correctAnswerPercent(st) ==
    IF st.questionsAnswered = 0
    THEN [exc |-> "ZeroDivisionError", value |-> 0]
    ELSE [exc |-> None,
          value |-> (st.correctAnswers * 100 * 1000000)
                        \div st.questionsAnswered]

\* onAnswer with the count of answered questions forgotten
onAnswerUncounted(st, rec, ans) ==
    LET counted == [st EXCEPT
                      !.correctAnswers = IF ans = rec.answer THEN @ + 1 ELSE @]
    IN  [exc |-> None, stats |-> counted]

\* StatisticsAnswerHandler.onAnswer; the percentage is computed for the
\* debug message after the counters are updated
onAnswer(st, rec, ans) ==
    LET counted == [st EXCEPT
                      !.questionsAnswered = @ + 1,
                      !.correctAnswers = IF ans = rec.answer THEN @ + 1 ELSE @]
    IN  [exc |-> correctAnswerPercent(counted).exc, stats |-> counted]

\* ------------------------------------------------------- scorer callback

\* runNeuralNetwork with an except clause that records a score of 0 for the
\* pair before it returns
runNeuralNetworkCachesFailure(fs, boundingBox, conceptNode, scorer) ==
    IF ~HasValue(fs, boundingBox, PredicateNode("features"))
    THEN [frames |-> fs, tv |-> 0]
    ELSE IF scorer.exc # None
    THEN [frames |-> SetValue(fs, boundingBox, conceptNode, 0), tv |-> 0]
    ELSE [frames |-> SetValue(SetValue(fs, boundingBox, conceptNode,
                                       scorer.result),
                              conceptNode, boundingBox, scorer.result),
          tv |-> scorer.result]

\* runNeuralNetwork(boundingBox, conceptNode); scorer is what
\* neuralNetworkRunner.runNeuralNetwork does: a result, or an exception
runNeuralNetwork(fs, boundingBox, conceptNode, scorer) ==
    IF ~HasValue(fs, boundingBox, PredicateNode("features"))
    THEN [frames |-> fs, tv |-> 0]
    ELSE IF scorer.exc # None
    THEN [frames |-> fs, tv |-> 0]
    ELSE [frames |-> SetValue(SetValue(fs, boundingBox, conceptNode,
                                       scorer.result),
                              conceptNode, boundingBox, scorer.result),
          tv |-> scorer.result]

\* --------------------------------------------------------------- ranking

Abs(x) == IF x < 0 THEN -x ELSE x

\* __lt__ comparing the two keys exactly, without the tolerance
ltExact(self, other) ==
    IF self.objectProbability # other.objectProbability
    THEN self.objectProbability < other.objectProbability
    ELSE self.attributeProbability < other.attributeProbability

\* OtherDetSubjObjResult.__lt__
lt(self, other) ==
    IF Abs(self.objectProbability - other.objectProbability) > Epsilon
    THEN self.objectProbability < other.objectProbability
    ELSE self.attributeProbability < other.attributeProbability

\* OtherDetSubjObjResult.__gt__
gt(self, other) == lt(other, self)

Reverse(s) == [i \in 1..Len(s) |-> s[Len(s) + 1 - i]]

\* list.sort's count_run: the length of the run the list starts with and
\* whether it is strictly descending
RECURSIVE RunEnd(_, _, _)
RunEnd(s, k, descending) ==
    IF k > Len(s) THEN Len(s)
    ELSE IF lt(s[k], s[k - 1]) = descending THEN RunEnd(s, k + 1, descending)
    ELSE k - 1

\* list.sort's binarysort step: where the pivot goes in the sorted prefix
RECURSIVE BinarySearch(_, _, _, _)
BinarySearch(s, pivot, l, r) ==
    IF l >= r THEN l
    ELSE LET p == l + ((r - l) \div 2)
         IN  IF lt(pivot, s[p]) THEN BinarySearch(s, pivot, l, p)
             ELSE BinarySearch(s, pivot, p + 1, r)

RECURSIVE BinarySort(_, _)
BinarySort(s, start) ==
    IF start > Len(s) THEN s
    ELSE LET l == BinarySearch(s, s[start], 1, start)
             moved == [i \in 1..Len(s) |->
                         IF i < l \/ i > start THEN s[i]
                         ELSE IF i = l THEN s[start]
                         ELSE s[i - 1]]
         IN  BinarySort(moved, start + 1)

\* list.sort() of a list shorter than 64 elements: one run, then binary
\* insertion of the rest
ListSort(s) ==
    IF Len(s) < 2 THEN s
    ELSE LET descending == lt(s[2], s[1])
             n == RunEnd(s, 3, descending)
             run == IF descending
                    THEN Reverse(SubSeq(s, 1, n)) \o SubSeq(s, n + 1, Len(s))
                    ELSE s
         IN  BinarySort(run, n + 1)

\* results.sort(reverse = True): reverse, sort, reverse
SortReverse(s) == Reverse(ListSort(Reverse(s)))

\* OtherDetSubjObjResult.__init__
OtherDetSubjObjResult(fs, out) ==
    [bb |-> out[1], attribute |-> out[2], object |-> out[3],
     attributeProbability |-> GetValue(fs, out[1], out[2]),
     objectProbability |-> GetValue(fs, out[1], out[3])]

\* SelectAnswer guarding the empty list instead of raising
SelectAnswerGuarded(built) ==
    LET sorted == SortReverse(built)
    IN  [exc |-> None, results |-> sorted,
         answer |-> IF Len(sorted) = 0 THEN None ELSE sorted[1].attribute[2]]

\* the sorted list and the answer of answerOtherQuestion, given the results
\* built from cog-execute!'s output
SelectAnswer(built) ==
    LET sorted == SortReverse(built)
    IN  IF Len(sorted) = 0
        THEN [exc |-> "IndexError", results |-> sorted, answer |-> None]
        ELSE [exc |-> None, results |-> sorted,
              answer |-> sorted[1].attribute[2]]

\* PatternMatcherVqaPipeline.answerOtherQuestion
answerOtherQuestion(fs, data) ==
    IF \E i \in 1..Len(data) :
          \/ ~HasValue(fs, data[i][1], data[i][2])
          \/ ~HasValue(fs, data[i][1], data[i][3])
    THEN [exc |-> "AttributeError", results |-> <<>>, answer |-> None]
    ELSE SelectAnswer([i \in 1..Len(data) |-> OtherDetSubjObjResult(fs, data[i])])

\* answerYesNoQuestion with a strict comparison
answerYesNoQuestionStrict(tv) == IF tv > YesThreshold THEN "yes" ELSE "no"

\* PatternMatcherVqaPipeline.answerYesNoQuestion, given cog-evaluate!'s
\* truth value
answerYesNoQuestion(tv) == IF tv >= YesThreshold THEN "yes" ELSE "no"

\* ------------------------------------------------------------ the inputs

\* the lines of the questions file that Record.fromString parses
Records ==
    [imageId : ImageIds, questionType : {"yes/no", "other"},
     answer : {"yes", "red"}]

NoRecord == [imageId |-> 0, questionType |-> None, answer |-> None]

\* what convertToOpencogScheme returns for a question it can parse, the
\* words each query names and the object it asks about
Queries == {"(ball)", "(red ball)"}

QueryWords(q) == IF q = "(ball)" THEN {"ball"} ELSE {"red", "ball"}

QueryObject(q) == "ball"

\* the scores neuralNetworkRunner.runNeuralNetwork returns, in units of 1e-6
Scores == {0, 2}

\* the word has no network (or the runner fails otherwise), or a score
ScorerOutcomes ==
    {[exc |-> "KeyError", result |-> 0]}
        \cup {[exc |-> None, result |-> s] : s \in Scores}

\* the truth values cog-evaluate! returns, in units of 1e-6
TruthValues == {0, YesThreshold - 1, YesThreshold, 2 * YesThreshold}

\* the atomspace file of --atomspace may hold a word of the questions
Preloaded == SUBSET {ConceptNode("red")}

\* -------------------------------------------------------------- pipeline

\* PatternMatcherVqaPipeline.addBoundingBoxesIntoAtomspace, the loop over
\* the loaded vectors from boundingBoxNumber on
RECURSIVE addBoundingBoxes(_, _, _)
addBoundingBoxes(fs, vectors, boundingBoxNumber) ==
    IF boundingBoxNumber >= Len(vectors) THEN fs
    ELSE LET boundingBoxInstance ==
                 ConceptNode(BoundingBoxName(boundingBoxNumber))
             class == ConceptNode("BoundingBox")
             key == PredicateNode("features")
             a1 == AddAtom(fs, boundingBoxInstance)
             a2 == AddAtom(a1, class)
             a3 == AddAtom(a2, InheritanceLink(boundingBoxInstance, class))
             a4 == AddAtom(a3, key)
             a5 == SetValue(a4, boundingBoxInstance, key,
                            vectors[boundingBoxNumber + 1])
         IN  addBoundingBoxes(a5, vectors, boundingBoxNumber + 1)

addBoundingBoxesIntoAtomspace(fs, vectors) == addBoundingBoxes(fs, vectors, 0)

\* the bounding boxes the query engine can ground a variable with
BoundingBoxes(fs) ==
    {a \in Visible(fs) :
        /\ a[1] = "ConceptNode"
        /\ InheritanceLink(a, ConceptNode("BoundingBox")) \in Visible(fs)}

\* the atoms the engine may hand to the scorer callback as the bounding box
Groundings(fs) ==
    BoundingBoxes(fs) \cup ({ConceptNode("BoundingBox")} \cap Visible(fs))

\* evaluating the query text adds the concepts it names
RECURSIVE AddAtoms(_, _)
AddAtoms(fs, atoms) ==
    IF atoms = {} THEN fs
    ELSE LET a == CHOOSE x \in atoms : TRUE
         IN  AddAtoms(AddAtom(fs, a), atoms \ {a})

\* the outputs cog-execute! may return: up to MaxResults triples of a
\* bounding box, an attribute and an object
Triples(fs, q) ==
    {<<b, ConceptNode(a), ConceptNode(QueryObject(q))>> :
        b \in BoundingBoxes(fs), a \in QueryWords(q)}

SeqsUpTo(S, n) == UNION {[1..k -> S] : k \in 0..n}

Snapshot == [frames |-> frames, stats |-> Stats,
             printedLines |-> printedLines, lineNo |-> lineNo]

Init ==
    /\ pc = "loop"
    /\ lineNo = 0
    /\ record = NoRecord
    /\ \E atoms \in Preloaded :
          frames = <<[atoms |-> atoms, values |-> EmptyValues]>>
    /\ processedQuestions = 0
    /\ questionsAnswered = 0
    /\ correctAnswers = 0
    /\ printedLines = 0
    /\ queryInScheme = None
    /\ engineCalls = 0
    /\ callbacks = 0
    /\ resultsData = <<>>
    /\ results = <<>>
    /\ truthValue = 0
    /\ answer = None
    /\ logged = None
    /\ featureFile = <<>>
    /\ featuresByBoundingBoxIndex = <<>>
    /\ called = <<>>
    /\ entry = [frames |-> frames, stats |-> Stats, printedLines |-> 0,
                lineNo |-> 0]

statsVars == <<processedQuestions, questionsAnswered, correctAnswers>>
loaderVars == <<featureFile, featuresByBoundingBoxIndex>>
questionVars == <<queryInScheme, engineCalls, callbacks, resultsData,
                  results, truthValue, answer>>

SetStats(st) ==
    /\ processedQuestions' = st.processedQuestions
    /\ questionsAnswered' = st.questionsAnswered
    /\ correctAnswers' = st.correctAnswers

\* answerQuestionsFromFile: Record.fromString raises on the line, the
\* handler logs it and the loop goes on
BadLine ==
    /\ pc = "loop"
    /\ lineNo < MaxLines
    /\ lineNo' = lineNo + 1
    /\ entry' = Snapshot
    /\ logged' = "fromString"
    /\ record' = NoRecord
    /\ UNCHANGED <<pc, frames, statsVars, printedLines, questionVars>>
    /\ UNCHANGED <<loaderVars, called>>

\* NewQuestion with onNewQuestion left out
NewQuestionUncounted ==
    /\ pc = "loop"
    /\ lineNo < MaxLines
    /\ \E rec \in Records : record' = rec
    /\ lineNo' = lineNo + 1
    /\ entry' = Snapshot
    /\ logged' = None
    /\ frames' = pushAtomspace(frames)
    /\ pc' = "scopeOpen"
    /\ UNCHANGED <<statsVars, printedLines, questionVars>>
    /\ UNCHANGED <<loaderVars, called>>

\* answerQuestionsFromFile reads a record and calls answerQuestion, up to
\* the try: onNewQuestion, pushAtomspace
NewQuestion ==
    /\ pc = "loop"
    /\ lineNo < MaxLines
    /\ \E rec \in Records : record' = rec
    /\ lineNo' = lineNo + 1
    /\ entry' = Snapshot
    /\ logged' = None
    /\ SetStats(onNewQuestion(Stats))
    /\ frames' = pushAtomspace(frames)
    /\ queryInScheme' = None
    /\ engineCalls' = 0
    /\ callbacks' = 0
    /\ resultsData' = <<>>
    /\ results' = <<>>
    /\ truthValue' = 0
    /\ answer' = None
    /\ pc' = "scopeOpen"
    /\ UNCHANGED printedLines
    /\ UNCHANGED <<loaderVars, called>>

\* answerQuestion: addBoundingBoxesIntoAtomspace(record)
AddBoundingBoxes ==
    /\ pc = "scopeOpen"
    /\ LET loaded == loadFeaturesByImageId(record.imageId)
       IN  IF loaded.exc # None
           THEN /\ logged' = loaded.exc
                /\ pc' = "finally"
                /\ UNCHANGED frames
           ELSE /\ frames' = addBoundingBoxesIntoAtomspace(frames, loaded.value)
                /\ pc' = "factsLoaded"
                /\ UNCHANGED logged
    /\ UNCHANGED <<lineNo, record, statsVars, printedLines, questionVars, entry>>
    /\ UNCHANGED <<loaderVars, called>>

\* Translate logging the missing query without returning
TranslateNoReturn ==
    /\ pc = "factsLoaded"
    /\ \E converted \in Queries \cup {None, "raise"} :
          IF converted = "raise"
          THEN /\ logged' = "JavaException"
               /\ pc' = "finally"
               /\ UNCHANGED queryInScheme
          ELSE /\ queryInScheme' = converted
               /\ pc' = "translated"
               /\ logged' = IF converted = None
                            THEN "Question was not parsed" ELSE logged
    /\ UNCHANGED <<lineNo, record, frames, statsVars, printedLines, engineCalls,
                   callbacks, resultsData, results, truthValue, answer, entry>>
    /\ UNCHANGED <<loaderVars, called>>

\* answerQuestion: parseQuestion, convertToOpencogScheme and the test for
\* None
Translate ==
    /\ pc = "factsLoaded"
    /\ \E converted \in Queries \cup {None, "raise"} :
          IF converted = "raise"
          THEN /\ logged' = "JavaException"
               /\ pc' = "finally"
               /\ UNCHANGED queryInScheme
          ELSE IF converted = None
          THEN /\ logged' = "Question was not parsed"
               /\ pc' = "finally"
               /\ UNCHANGED queryInScheme
          ELSE /\ queryInScheme' = converted
               /\ pc' = "translated"
               /\ UNCHANGED logged
    /\ UNCHANGED <<lineNo, record, frames, statsVars, printedLines, engineCalls,
                   callbacks, resultsData, results, truthValue, answer, entry>>
    /\ UNCHANGED <<loaderVars, called>>

\* answerYesNoQuestion / answerOtherQuestion hand the query to the engine
StartEvaluation ==
    /\ pc = "translated"
    /\ engineCalls' = engineCalls + 1
    /\ frames' = AddAtoms(frames, {ConceptNode(w) : w \in QueryWords(queryInScheme)})
    /\ pc' = "evaluating"
    /\ UNCHANGED <<lineNo, record, statsVars, printedLines, queryInScheme,
                   callbacks, resultsData, results, truthValue, answer, logged,
                   entry>>
    /\ UNCHANGED <<loaderVars, called>>

\* the engine calls runNeuralNetwork back for a bounding box and a word: the
\* body of the callback up to its return statement
ScorerCallback ==
    /\ pc = "evaluating"
    /\ callbacks < MaxCallbacks
    /\ \E boundingBox \in Groundings(frames), w \in QueryWords(queryInScheme),
          scorer \in ScorerOutcomes :
          LET returned == runNeuralNetwork(frames, boundingBox,
                                           ConceptNode(w), scorer)
          IN  /\ frames' = returned.frames
              /\ called' = <<[boundingBox |-> boundingBox,
                              conceptNode |-> ConceptNode(w),
                              scorer |-> scorer, tv |-> returned.tv]>>
    /\ callbacks' = callbacks + 1
    /\ pc' = "scored"
    /\ UNCHANGED <<lineNo, record, statsVars, printedLines, queryInScheme,
                   engineCalls, resultsData, results, truthValue, answer,
                   logged, entry>>
    /\ UNCHANGED loaderVars

\* runNeuralNetwork returns its TruthValue and the engine goes on
ScorerReturns ==
    /\ pc = "scored"
    /\ called' = <<>>
    /\ pc' = "evaluating"
    /\ UNCHANGED <<lineNo, record, frames, statsVars, printedLines,
                   questionVars, logged, entry>>
    /\ UNCHANGED loaderVars

\* scheme_eval_v / scheme_eval_h raises
EngineRaises ==
    /\ pc = "evaluating"
    /\ logged' = "RuntimeError"
    /\ pc' = "finally"
    /\ UNCHANGED <<lineNo, record, frames, statsVars, printedLines,
                   questionVars, entry>>
    /\ UNCHANGED <<loaderVars, called>>

\* answerYesNoQuestion once cog-evaluate! returns
FinishYesNo ==
    /\ pc = "evaluating"
    /\ record.questionType = "yes/no"
    /\ \E tv \in TruthValues :
          /\ truthValue' = tv
          /\ answer' = answerYesNoQuestion(tv)
    /\ pc' = "answered"
    /\ UNCHANGED <<lineNo, record, frames, statsVars, printedLines,
                   queryInScheme, engineCalls, callbacks, resultsData, results,
                   logged, entry>>
    /\ UNCHANGED <<loaderVars, called>>

\* answerOtherQuestion once cog-execute! returns
FinishOther ==
    /\ pc = "evaluating"
    /\ record.questionType # "yes/no"
    /\ \E data \in SeqsUpTo(Triples(frames, queryInScheme), MaxResults) :
          LET r == answerOtherQuestion(frames, data)
          IN  IF r.exc # None
              THEN /\ logged' = r.exc
                   /\ pc' = "finally"
                   /\ UNCHANGED <<resultsData, results, answer>>
              ELSE /\ resultsData' = data
                   /\ results' = r.results
                   /\ answer' = r.answer
                   /\ pc' = "answered"
                   /\ UNCHANGED logged
    /\ UNCHANGED <<lineNo, record, frames, statsVars, printedLines,
                   queryInScheme, engineCalls, callbacks, truthValue, entry>>
    /\ UNCHANGED <<loaderVars, called>>

\* answerQuestion: onAnswer and the result line
RecordAnswer ==
    /\ pc = "answered"
    /\ LET r == onAnswer(Stats, record, answer)
       IN  /\ SetStats(r.stats)
           /\ IF r.exc # None
              THEN logged' = r.exc /\ UNCHANGED printedLines
              ELSE printedLines' = printedLines + 1 /\ UNCHANGED logged
    /\ pc' = "finally"
    /\ UNCHANGED <<lineNo, record, frames, questionVars, entry>>
    /\ UNCHANGED <<loaderVars, called>>

\* Finally with the pop at the end of the try block: an exception skips it
FinallyAfterTry ==
    /\ pc = "finally"
    /\ frames' = IF logged \in {None, "Question was not parsed"}
                 THEN popAtomspace(frames) ELSE frames
    /\ pc' = "loop"
    /\ record' = NoRecord
    /\ queryInScheme' = None
    /\ engineCalls' = 0
    /\ callbacks' = 0
    /\ resultsData' = <<>>
    /\ results' = <<>>
    /\ truthValue' = 0
    /\ answer' = None
    /\ UNCHANGED <<lineNo, statsVars, printedLines, logged, entry>>
    /\ UNCHANGED <<loaderVars, called>>

\* the finally clause releasing the scope twice
FinallyPopsTwice ==
    /\ pc = "finally"
    /\ frames' = popAtomspace(popAtomspace(frames))
    /\ pc' = "loop"
    /\ record' = NoRecord
    /\ queryInScheme' = None
    /\ engineCalls' = 0
    /\ callbacks' = 0
    /\ resultsData' = <<>>
    /\ results' = <<>>
    /\ truthValue' = 0
    /\ answer' = None
    /\ UNCHANGED <<lineNo, statsVars, printedLines, logged, entry>>
    /\ UNCHANGED <<loaderVars, called>>

\* answerQuestion's finally: popAtomspace; then back in the loop, through
\* the except clause when an exception is on its way. The locals of the
\* call are gone.
Finally ==
    /\ pc = "finally"
    /\ frames' = popAtomspace(frames)
    /\ pc' = "loop"
    /\ record' = NoRecord
    /\ queryInScheme' = None
    /\ engineCalls' = 0
    /\ callbacks' = 0
    /\ resultsData' = <<>>
    /\ results' = <<>>
    /\ truthValue' = 0
    /\ answer' = None
    /\ UNCHANGED <<lineNo, statsVars, printedLines, logged, entry>>
    /\ UNCHANGED <<loaderVars, called>>

\* the questions file has no more lines
EndOfFile ==
    /\ pc = "loop"
    /\ pc' = "statistics"
    /\ UNCHANGED <<lineNo, record, frames, statsVars, printedLines,
                   questionVars, logged, entry>>
    /\ UNCHANGED <<loaderVars, called>>

\* main: the final statistics line
PrintStatistics ==
    /\ pc = "statistics"
    /\ pc' = IF correctAnswerPercent(Stats).exc # None THEN "crashed"
             ELSE "stopped"
    /\ UNCHANGED <<lineNo, record, frames, statsVars, printedLines,
                   questionVars, logged, entry>>
    /\ UNCHANGED <<loaderVars, called>>

Next ==
    \/ BadLine
    \/ NewQuestion
    \/ AddBoundingBoxes
    \/ Translate
    \/ StartEvaluation
    \/ ScorerCallback
    \/ ScorerReturns
    \/ EngineRaises
    \/ FinishYesNo
    \/ FinishOther
    \/ RecordAnswer
    \/ Finally
    \/ EndOfFile
    \/ PrintStatistics

Spec == Init /\ [][Next]_vars

\* ------------------------------------------------- ranking on its own

\* the probabilities the bounding boxes cache, in units of 1e-6: within the
\* tolerance of __lt__ and beyond it
ObjectProbabilities == 0..4
AttributeProbabilities == 0..2

\* the results answerOtherQuestion builds from cog-execute!'s output
Candidates ==
    [bb : {ConceptNode(BoundingBoxName(0))},
     attribute : {ConceptNode(w) : w \in Words},
     object : {ConceptNode("ball")},
     attributeProbability : AttributeProbabilities,
     objectProbability : ObjectProbabilities]

InitRank ==
    /\ pc = "rank"
    /\ lineNo = 0
    /\ record = NoRecord
    /\ frames = <<EmptyFrame>>
    /\ processedQuestions = 0
    /\ questionsAnswered = 0
    /\ correctAnswers = 0
    /\ printedLines = 0
    /\ queryInScheme = None
    /\ engineCalls = 0
    /\ callbacks = 0
    /\ resultsData = <<>>
    /\ results = <<>>
    /\ truthValue = 0
    /\ answer = None
    /\ logged = None
    /\ featureFile = <<>>
    /\ featuresByBoundingBoxIndex = <<>>
    /\ called = <<>>
    /\ entry = [frames |-> frames, stats |-> Stats, printedLines |-> 0,
                lineNo |-> 0]

\* answerOtherQuestion: the list of results, in the engine's order
BuildResults ==
    /\ pc = "rank"
    /\ \E built \in SeqsUpTo(Candidates, MaxCandidates) :
          /\ resultsData' = built
          /\ results' = built
    /\ pc' = "built"
    /\ UNCHANGED <<lineNo, record, frames, statsVars, printedLines,
                   queryInScheme, engineCalls, callbacks, truthValue, answer,
                   logged, entry>>
    /\ UNCHANGED <<loaderVars, called>>

\* answerOtherQuestion: results.sort(reverse = True) and results[0]
SortAndSelect ==
    /\ pc = "built"
    /\ LET r == SelectAnswer(results)
       IN  /\ results' = r.results
           /\ answer' = r.answer
           /\ logged' = r.exc
    /\ pc' = "ranked"
    /\ UNCHANGED <<lineNo, record, frames, statsVars, printedLines,
                   queryInScheme, engineCalls, callbacks, resultsData,
                   truthValue, entry>>
    /\ UNCHANGED <<loaderVars, called>>

NextRank ==
    \/ BuildResults
    \/ SortAndSelect

SpecRank == InitRank /\ [][NextRank]_vars

\* ----------------------------------------------- the loader on its own

\* ten fields that are no numbers
Placeholders == [i \in 1..HeaderFields |-> "_"]

\* the feature fields of a row
FeatureFields ==
    {<<"0.1", "0.2">>, <<"0.3", "0.4">>, <<"0.5", "0.6">>, <<"0.1", "n/a">>}

\* the lines a feature file is made of: a header, an empty line, a line
\* with feature fields only, and rows of ten fields and the feature fields
FileLines ==
    {HeaderLine, <<>>, <<"0.1", "0.2">>}
        \cup {g \o f : g \in {Geometry, Placeholders}, f \in FeatureFields}

InitLoad ==
    /\ pc = "load"
    /\ lineNo = 0
    /\ record = NoRecord
    /\ frames = <<EmptyFrame>>
    /\ processedQuestions = 0
    /\ questionsAnswered = 0
    /\ correctAnswers = 0
    /\ printedLines = 0
    /\ queryInScheme = None
    /\ engineCalls = 0
    /\ callbacks = 0
    /\ resultsData = <<>>
    /\ results = <<>>
    /\ truthValue = 0
    /\ answer = None
    /\ logged = None
    /\ featureFile \in SeqsUpTo(FileLines, MaxFileLines)
    /\ featuresByBoundingBoxIndex = <<>>
    /\ called = <<>>
    /\ entry = [frames |-> frames, stats |-> Stats, printedLines |-> 0,
                lineNo |-> 0]

\* loadFeaturesByFileName hands the open file to
\* loadFeaturesUsingFileHandle; an exception goes to the caller
LoadFeatures ==
    /\ pc = "load"
    /\ LET loaded == loadFeaturesUsingFileHandle(featureFile)
       IN  /\ featuresByBoundingBoxIndex' = loaded.value
           /\ logged' = loaded.exc
    /\ pc' = "loaded"
    /\ UNCHANGED <<lineNo, record, frames, statsVars, printedLines,
                   questionVars, featureFile, called,
                   entry>>

NextLoad == LoadFeatures

SpecLoad == InitLoad /\ [][NextLoad]_vars

\* ---------------------------------------------------------------- claims

\* control is outside answerQuestion
Outside == pc \in {"loop", "statistics", "stopped", "crashed"}

\* the exceptions answerQuestion can leave with
Exceptions ==
    {"KeyError", "ValueError", "StopIteration", "JavaException",
     "RuntimeError", "AttributeError", "IndexError", "ZeroDivisionError"}

\* what is logged for a question answerQuestion gives up
Failures == Exceptions \cup {"Question was not parsed"}

\* C1: a call of answerQuestion holds exactly one frame more than at its
\* entry while it runs, and leaves with the depth it was entered with, on
\* the normal path, on the return for a missing query and on every exception.
ScopeReleased ==
    /\ ~Outside => Len(frames) = Len(entry.frames) + 1
    /\ Outside => Len(frames) = Len(entry.frames)

\* C1 witness: answerQuestion was left by an exception of the engine, after
\* the frame had been filled, and the depth is the one at entry
ScopeReleasedAfterException ==
    /\ pc = "loop"
    /\ logged = "RuntimeError"
    /\ processedQuestions = entry.stats.processedQuestions + 1
    /\ Depth = 0

\* C2: after the pop that matches a push the atomspace (its atoms and every
\* value on them) is the one before the push.
FrameRoundTrip == Outside => frames = entry.frames

\* C3 as stated: whatever fails for a line, record parsing included, the
\* line counts as processed and not as answered, and the loop goes on.
FailureCountsProcessed ==
    (pc = "loop" /\ logged \in Failures \cup {"fromString"})
        => /\ processedQuestions = entry.stats.processedQuestions + 1
           /\ questionsAnswered = entry.stats.questionsAnswered
           /\ lineNo = entry.lineNo + 1

\* C3 amended: a failure inside answerQuestion counts the line as processed
\* and not as answered; a line Record.fromString rejects changes no counter;
\* in both cases the loop is back at its top with the next line to read.
FailureIsolated ==
    /\ logged \in Failures \cup {"fromString"}
          => pc \in {"finally", "loop", "statistics", "stopped", "crashed"}
    /\ (pc = "loop" /\ logged \in Failures)
          => /\ processedQuestions = entry.stats.processedQuestions + 1
             /\ questionsAnswered = entry.stats.questionsAnswered
             /\ lineNo = entry.lineNo + 1
    /\ (pc = "loop" /\ logged = "fromString")
          => /\ Stats = entry.stats
             /\ lineNo = entry.lineNo + 1
    /\ (pc = "loop" /\ lineNo < MaxLines) => ENABLED NewQuestion

\* C3 witness: the first line failed while its features were loaded, and the
\* second line has been read and is being answered
FailureThenNextQuestion ==
    /\ pc = "finally"
    /\ lineNo = 2
    /\ entry.stats.processedQuestions = 1
    /\ entry.stats.questionsAnswered = 0
    /\ questionsAnswered = 1

CountersOrdered ==
    /\ 0 <= correctAnswers
    /\ correctAnswers <= questionsAnswered
    /\ questionsAnswered <= processedQuestions
    /\ processedQuestions <= lineNo
    /\ processedQuestions - entry.stats.processedQuestions \in {0, 1}
    /\ questionsAnswered - entry.stats.questionsAnswered \in {0, 1}
    /\ correctAnswers - entry.stats.correctAnswers \in {0, 1}

CountersStep ==
    /\ processedQuestions' - processedQuestions \in {0, 1}
    /\ questionsAnswered' - questionsAnswered \in {0, 1}
    /\ correctAnswers' - correctAnswers \in {0, 1}

\* C4: correctAnswers <= questionsAnswered <= processedQuestions in every
\* state, no counter ever decreases, and none grows by more than 1 in a step
\* or over the handling of one line.
CounterInvariant == []CountersOrdered /\ [][CountersStep]_vars

\* C4 witness: two questions answered, one of them correctly
CountersApart ==
    /\ processedQuestions = 2
    /\ questionsAnswered = 2
    /\ correctAnswers = 1

\* C5: the percentage is never computed with questionsAnswered = 0: the
\* final statistics line is printed and the run ends normally.
NoDivisionByZero == pc # "crashed"

\* C8: a yes/no question is answered "yes" exactly when the truth value is
\* at least 0.5, and "no" otherwise.
YesNoThreshold ==
    (pc \in {"answered", "finally"} /\ record.questionType = "yes/no"
        /\ logged = None)
        => /\ answer \in {"yes", "no"}
           /\ answer = "yes" <=> truthValue >= 500000

\* C8 witness: the truth value is exactly 0.5 and the answer is "yes"
YesAtBoundary ==
    /\ pc = "answered"
    /\ record.questionType = "yes/no"
    /\ truthValue = 500000
    /\ answer = "yes"

\* C9: when the translator returns no query the question goes from
\* FactsLoaded straight to the finally block: the engine is not invoked, no
\* answer is recorded or printed, the frame is popped and the loop goes on.
NoQueryAbandons ==
    logged = "Question was not parsed"
        => /\ pc \in {"finally", "loop", "statistics", "stopped", "crashed"}
           /\ pc = "finally" => engineCalls = 0 /\ callbacks = 0
                                   /\ answer = None
           /\ processedQuestions = entry.stats.processedQuestions + 1
           /\ questionsAnswered = entry.stats.questionsAnswered
           /\ correctAnswers = entry.stats.correctAnswers
           /\ printedLines = entry.printedLines
           /\ Outside => Len(frames) = Len(entry.frames)
           /\ (pc = "loop" /\ lineNo < MaxLines) => ENABLED NewQuestion

\* C9 witness: a question was abandoned for its missing query, and the loop
\* is at its top with the root atomspace active
NoQueryAbandoned ==
    /\ pc = "loop"
    /\ logged = "Question was not parsed"
    /\ Depth = 0
    /\ processedQuestions = 1

\* C10: an open query without result triples records and prints no answer,
\* the frame is popped and the loop goes on; an answer of an open question
\* is the attribute of one of the triples returned.
EmptyResultAbandons ==
    /\ (pc \in {"answered", "finally"} /\ record.questionType = "other"
          /\ logged = None)
          => /\ Len(resultsData) > 0
             /\ \E i \in 1..Len(resultsData) : answer = resultsData[i][2][2]
    /\ logged = "IndexError"
          => /\ pc \in {"finally", "loop", "statistics", "stopped", "crashed"}
             /\ pc = "finally" => engineCalls = 1 /\ answer = None
             /\ processedQuestions = entry.stats.processedQuestions + 1
             /\ questionsAnswered = entry.stats.questionsAnswered
             /\ correctAnswers = entry.stats.correctAnswers
             /\ printedLines = entry.printedLines
             /\ Outside => Len(frames) = Len(entry.frames)
             /\ (pc = "loop" /\ lineNo < MaxLines) => ENABLED NewQuestion

\* C10 witness: the engine returned no triple for an open question, and the
\* loop is at its top again
EmptyResultAbandoned ==
    /\ pc = "loop"
    /\ logged = "IndexError"
    /\ Depth = 0
    /\ questionsAnswered = 0

\* the results being ranked
Ranked == {results[i] : i \in 1..Len(results)}

\* two results whose object probabilities differ by at most 1e-6
Tied(a, b) == Abs(a.objectProbability - b.objectProbability) <= 1

\* C6 as stated: the higher object probability ranks above whatever the
\* attribute probabilities are, and no three results rank in a cycle.
RankingTotalOrder ==
    /\ \A a \in Ranked, b \in Ranked :
          a.objectProbability > b.objectProbability => lt(b, a)
    /\ \A a \in Ranked, b \in Ranked, c \in Ranked :
          ~(lt(b, a) /\ lt(c, b) /\ lt(a, c))

\* C6 amended: an object probability higher by more than 1e-6 ranks above
\* whatever the attribute probabilities are; within 1e-6 the attribute
\* probability alone decides; no two results rank above each other; the
\* comparison is transitive for three results unless their object
\* probabilities all lie within 2e-6 of one another.
RankingByKeys ==
    /\ \A a \in Ranked, b \in Ranked :
          /\ a.objectProbability - b.objectProbability > 1 => lt(b, a)
          /\ Tied(a, b)
                => (lt(b, a) <=> b.attributeProbability < a.attributeProbability)
          /\ ~(lt(a, b) /\ lt(b, a))
    /\ \A a \in Ranked, b \in Ranked, c \in Ranked :
          (lt(a, b) /\ lt(b, c) /\ ~lt(a, c))
              => \A x \in {a, b, c}, y \in {a, b, c} :
                    Abs(x.objectProbability - y.objectProbability) <= 2

\* C6 witness: a result ranks above one with the higher attribute
\* probability because its object probability is higher by more than 1e-6
RankedByObject ==
    \E a \in Ranked, b \in Ranked :
        /\ a.objectProbability = b.objectProbability + 2
        /\ a.attributeProbability < b.attributeProbability
        /\ lt(b, a)

\* C7 as stated: the answer is the attribute of a result no other result
\* ranks above, whatever the order the engine returned them in.
TopRankedSelected ==
    (pc = "ranked" /\ Len(resultsData) > 0)
        => /\ answer = results[1].attribute[2]
           /\ \A i \in 1..Len(resultsData) : ~lt(results[1], resultsData[i])

\* the text of a number the feature files hold
Numeric(t) == t \in {"0", "0.1", "0.2", "0.3", "0.4", "0.5", "0.6"}

\* the value float() gives for the text of a number
Value(t) ==
    CASE t = "0" -> 0 [] t = "0.1" -> 100000 [] t = "0.2" -> 200000
      [] t = "0.3" -> 300000 [] t = "0.4" -> 400000 [] t = "0.5" -> 500000
      [] t = "0.6" -> 600000

\* a region row: more than ten fields, every one a number
RegionRow(line) ==
    /\ Len(line) > 10
    /\ \A f \in 1..Len(line) : Numeric(line[f])

\* the vector is the line's fields from the eleventh on, as numbers
VectorOf(vector, line) ==
    /\ Len(vector) = IF Len(line) > 10 THEN Len(line) - 10 ELSE 0
    /\ \A k \in 1..Len(vector) : vector[k] = Value(line[10 + k])

\* C11 as stated: a file of n region rows gives n vectors, the i-th being
\* row i without its first 10 fields.
OneVectorPerRow ==
    (/\ pc = "loaded"
     /\ Len(featureFile) > 0
     /\ \A l \in 1..Len(featureFile) : RegionRow(featureFile[l]))
        => /\ logged = None
           /\ Len(featuresByBoundingBoxIndex) = Len(featureFile)
           /\ \A i \in 1..Len(featureFile) :
                 VectorOf(featuresByBoundingBoxIndex[i], featureFile[i])

\* C11 amended: the first line of the file is discarded whatever it holds;
\* every later line gives one vector, in file order, the line's fields from
\* the eleventh on (none for a line of at most 10 fields); a file of n lines
\* gives n - 1 vectors. An empty file raises StopIteration and a field that
\* is no number, in any line but the first, raises ValueError.
OneVectorPerRowAfterHeader ==
    pc = "loaded"
        => IF Len(featureFile) = 0
           THEN logged = "StopIteration"
           ELSE IF \E l \in 2..Len(featureFile) :
                     \E f \in 1..Len(featureFile[l]) :
                         ~Numeric(featureFile[l][f])
           THEN logged = "ValueError"
           ELSE /\ logged = None
                /\ Len(featuresByBoundingBoxIndex) = Len(featureFile) - 1
                /\ \A i \in 1..Len(featuresByBoundingBoxIndex) :
                      VectorOf(featuresByBoundingBoxIndex[i],
                               featureFile[i + 1])

\* C11 witness: a header line and the three rows of the scenario give the
\* three vectors [0.1, 0.2], [0.3, 0.4], [0.5, 0.6]
ScenarioLoaded ==
    /\ pc = "loaded"
    /\ featureFile = <<HeaderLine, Geometry \o <<"0.1", "0.2">>,
                       Geometry \o <<"0.3", "0.4">>,
                       Geometry \o <<"0.5", "0.6">> >>
    /\ logged = None
    /\ featuresByBoundingBoxIndex =
          << <<100000, 200000>>, <<300000, 400000>>, <<500000, 600000>> >>

\* the call c cannot be scored: the atom handed in has no features, or the
\* scorer raises
ScorerFailed(c) ==
    \/ ~HasValue(frames, c.boundingBox, PredicateNode("features"))
    \/ c.scorer.exc # None

\* C12: a runNeuralNetwork call never leaves the evaluation: with no
\* features on the region, or an exception of the scorer (an unknown word
\* included), it returns truth value 0 and writes nothing; otherwise the
\* score is stored on the region and the concept before the return and is
\* the truth value returned; the return hands control back to the engine
\* with nothing logged.
ScorerNeverFails ==
    /\ [][callbacks' = callbacks + 1
          => LET c == called'[1]
             IN  /\ pc = "evaluating" /\ pc' = "scored"
                 /\ logged' = logged
                 /\ IF ScorerFailed(c)
                    THEN c.tv = 0 /\ frames' = frames
                    ELSE /\ c.tv = c.scorer.result
                         /\ HasValue(frames', c.boundingBox, c.conceptNode)
                         /\ GetValue(frames', c.boundingBox, c.conceptNode)
                               = c.tv
                         /\ HasValue(frames', c.conceptNode, c.boundingBox)]_vars
    /\ [][pc = "scored"
            => pc' = "evaluating" /\ logged' = logged /\ frames' = frames]_vars

\* C12 witness: the scorer raised for a region that has features; the
\* callback is about to return 0 and the pair has no score
ScorerRaisedNoEvidence ==
    /\ pc = "scored"
    /\ called # <<>>
    /\ called[1].scorer.exc = "KeyError"
    /\ called[1].tv = 0
    /\ HasValue(frames, called[1].boundingBox, PredicateNode("features"))
    /\ ~HasValue(frames, called[1].boundingBox, called[1].conceptNode)

\* the active scope is the root frame between questions and one child of
\* it inside a question
RootOrOneChild ==
    /\ Len(frames) \in {1, 2}
    /\ Outside <=> Len(frames) = 1

\* a push starts from the root frame, a pop from its child, one frame at a
\* time
PushFromRootPopFromChild ==
    /\ Len(frames') > Len(frames) => Len(frames) = 1 /\ Len(frames') = 2
    /\ Len(frames') < Len(frames) => Len(frames) = 2 /\ Len(frames') = 1

\* C13: the active scope is always the root frame or exactly one child of
\* it, a question's push happens only with the root frame active, and a pop
\* only with the child frame open, whatever the questions before did.
OneChildFrame == []RootOrOneChild /\ [][PushFromRootPopFromChild]_vars

\* C13 witness: an answered question and a failed one have both been
\* closed and the root frame is active again
ClosedAfterAnsweredAndFailed ==
    /\ pc = "loop"
    /\ lineNo = 2
    /\ processedQuestions = 2
    /\ questionsAnswered = 1
    /\ logged \in Exceptions
    /\ Len(frames) = 1

====
